---------------------------- MODULE Spec2Model ----------------------------
(* AfLogsCleaner (src/AfLogsCleaner.py): listing the log files of a Minio   *)
(* bucket, choosing the expired ones by the date in their path, and         *)
(* removing them.  Object names are sequences of one-character strings, so  *)
(* the two regular expressions and strptime are computed, not assumed.      *)
EXTENDS Integers, Sequences, FiniteSets, TLC

(***************************************************************************)
(* Characters and the two compiled patterns                                *)
(***************************************************************************)

Digits == <<"0","1","2","3","4","5","6","7","8","9">>

\* \d of the pattern language, on the ASCII alphabet of the model
IsDigit(c) == \E k \in 1..10 : Digits[k] = c

\* \D: anything that is not a digit
IsNonDigit(c) == ~IsDigit(c)

Letters ==
  {"a","b","c","d","e","f","g","h","i","j","k","l","m",
   "n","o","p","q","r","s","t","u","v","w","x","y","z"}

\* \w: letters, digits and the underscore
IsWord(c) == c \in Letters \/ IsDigit(c) \/ c = "_"

DigitVal(c) == (CHOOSE k \in 1..10 : Digits[k] = c) - 1

\* the literal lit occurs in s at position i
LitAt(s, i, lit) ==
  /\ i >= 1
  /\ i + Len(lit) - 1 <= Len(s)
  /\ \A k \in 1..Len(lit) : s[i + k - 1] = lit[k]

RunIdLit == <<"r","u","n","_","i","d","=">>

DagIdLit == <<"d","a","g","_","i","d","=">>

\* \d{4}-\d{2}-\d{2} at position i of s
DatePatternAt(s, i) ==
  /\ i >= 1
  /\ i + 9 <= Len(s)
  /\ \A k \in {0, 1, 2, 3, 5, 6, 8, 9} : IsDigit(s[i + k])
  /\ s[i + 4] = "-"
  /\ s[i + 7] = "-"

\* run_id=\D+__(\d{4}-\d{2}-\d{2}) matched from position i, \D+ taking n characters
DagrunDtMatchAt(s, i, n) ==
  /\ n >= 1
  /\ LitAt(s, i, RunIdLit)
  /\ i + 7 + n + 1 <= Len(s)
  /\ \A k \in 0..(n - 1) : IsNonDigit(s[i + 7 + k])
  /\ s[i + 7 + n] = "_"
  /\ s[i + 7 + n + 1] = "_"
  /\ DatePatternAt(s, i + 7 + n + 2)

Max(S) == CHOOSE x \in S : \A y \in S : y <= x

Min(S) == CHOOSE x \in S : \A y \in S : x <= y

\* regexp_extract_dagrun_dt.search(s): group 1 of the leftmost match, the
\* greedy \D+ as long as the rest of the pattern allows; <<>> stands for "no match"
SearchDagrunDt(s) ==
  LET starts == {i \in 1..Len(s) : \E n \in 1..Len(s) : DagrunDtMatchAt(s, i, n)}
  IN  IF starts = {} THEN <<>>
      ELSE LET i == Min(starts)
               n == Max({m \in 1..Len(s) : DagrunDtMatchAt(s, i, m)})
           IN  SubSeq(s, i + 7 + n + 2, i + 7 + n + 11)

\* dag_id=(\w+)/ matched from position i, \w+ taking n characters
DagNameMatchAt(s, i, n) ==
  /\ n >= 1
  /\ LitAt(s, i, DagIdLit)
  /\ i + 7 + n <= Len(s)
  /\ \A k \in 0..(n - 1) : IsWord(s[i + 7 + k])
  /\ s[i + 7 + n] = "/"

\* regexp_extract_dag_name.search(s): group 1 of the leftmost match, or <<>>
SearchDagName(s) ==
  LET starts == {i \in 1..Len(s) : \E n \in 1..Len(s) : DagNameMatchAt(s, i, n)}
  IN  IF starts = {} THEN <<>>
      ELSE LET i == Min(starts)
               n == Max({m \in 1..Len(s) : DagNameMatchAt(s, i, m)})
           IN  SubSeq(s, i + 7, i + 7 + n - 1)

(***************************************************************************)
(* Calendar dates: a date is its proleptic Gregorian ordinal               *)
(***************************************************************************)

\* date.min.toordinal() and date.max.toordinal(): 0001-01-01 and 9999-12-31
MinOrdinal == 1

MaxOrdinal == 3652059

IsLeap(y) == (y % 4 = 0) /\ ((y % 100 # 0) \/ (y % 400 = 0))

DaysInMonth(y, m) ==
  IF m = 2 THEN (IF IsLeap(y) THEN 29 ELSE 28)
  ELSE IF m \in {4, 6, 9, 11} THEN 30 ELSE 31

RECURSIVE DaysBeforeMonth(_, _)
DaysBeforeMonth(y, m) ==
  IF m <= 1 THEN 0 ELSE DaysBeforeMonth(y, m - 1) + DaysInMonth(y, m - 1)

\* date(y, m, d).toordinal()
ToOrdinal(y, m, d) ==
  LET p == y - 1
  IN  p * 365 + (p \div 4) - (p \div 100) + (p \div 400) + DaysBeforeMonth(y, m) + d

\* datetime.strptime(str, "%Y-%m-%d").date() on a string the pattern matched:
\* the date, or ValueError for a year, month or day out of range
Strptime(str) ==
  LET y == 1000 * DigitVal(str[1]) + 100 * DigitVal(str[2])
             + 10 * DigitVal(str[3]) + DigitVal(str[4])
      m == 10 * DigitVal(str[6]) + DigitVal(str[7])
      d == 10 * DigitVal(str[9]) + DigitVal(str[10])
  IN  IF y >= 1 /\ m \in 1..12 /\ d >= 1 /\ d <= DaysInMonth(y, m)
      THEN [kind |-> "date", ord |-> ToOrdinal(y, m, d)]
      ELSE [kind |-> "ValueError", ord |-> 0]

\* _extract_dagrun_dt_from_path: a date, None when the pattern does not match
\* (the method falls off its end), or strptime's ValueError
extract_dagrun_dt_from_path(file_path) ==
  LET match_obj == SearchDagrunDt(file_path)
  IN  IF match_obj # <<>> THEN Strptime(match_obj)
      ELSE [kind |-> "None", ord |-> 0]

NoneVal == [kind |-> "None"]

Str(s) == [kind |-> "str", str |-> s]

\* _extract_dag_name_from_path: the name, or None when there is no match
\* (the method falls off its end)
extract_dag_name_from_path(file_path) ==
  LET match_obj == SearchDagName(file_path)
  IN  IF match_obj # <<>> THEN Str(match_obj) ELSE NoneVal

(***************************************************************************)
(* The bucket: the objects the store may hold, in the order it lists them  *)
(***************************************************************************)

\* a/dag_id=x/run_id=m__2024-01-01/f.log
P1 ==
  <<"a","/","d","a","g","_","i","d","=","x","/","r","u","n","_","i","d","=","m","_","_","2","0","2","4","-","0","1","-","0","1","/","f",".","l","o","g">>

\* a/dag_id=y/run_id=n__2024-06-01/f.log
P2 ==
  <<"a","/","d","a","g","_","i","d","=","y","/","r","u","n","_","i","d","=","n","_","_","2","0","2","4","-","0","6","-","0","1","/","f",".","l","o","g">>

\* dag_id=etl_job/run_id=s__2024-06-09/f
P3 ==
  <<"d","a","g","_","i","d","=","e","t","l","_","j","o","b","/","r","u","n","_","i","d","=","s","_","_","2","0","2","4","-","0","6","-","0","9","/","f">>

\* dag_id=etl_job/run_id=s__2024-06-10/f
P4 ==
  <<"d","a","g","_","i","d","=","e","t","l","_","j","o","b","/","r","u","n","_","i","d","=","s","_","_","2","0","2","4","-","0","6","-","1","0","/","f">>

\* dag_id=x/run_id=abc123__2024-01-15/f   (digits before the __: no date)
P5 ==
  <<"d","a","g","_","i","d","=","x","/","r","u","n","_","i","d","=","a","b","c","1","2","3","_","_","2","0","2","4","-","0","1","-","1","5","/","f">>

\* dag_id=y/run_id=m__2024-13-01/f        (month 13: a malformed date)
P6 ==
  <<"d","a","g","_","i","d","=","y","/","r","u","n","_","i","d","=","m","_","_","2","0","2","4","-","1","3","-","0","1","/","f">>

\* run_id=m__2024-01-01/f.log             (no dag_id= at all)
P7 ==
  <<"r","u","n","_","i","d","=","m","_","_","2","0","2","4","-","0","1","-","0","1","/","f",".","l","o","g">>

object_names == <<P1, P2, P3, P4, P5, P6, P7>>

\* a Minio Object is known by its position in the listing
Objects == DOMAIN object_names

object_name(obj) == object_names[obj]

\* the two extractions of every object, computed once
DagNameOf == [obj \in Objects |-> extract_dag_name_from_path(object_name(obj))]

DagrunDtOf == [obj \in Objects |-> extract_dagrun_dt_from_path(object_name(obj))]

\* client.list_objects(bucket, recursive=True): the stored objects, in key order
RECURSIVE list_objects(_, _)
list_objects(stored, from) ==
  IF from > Len(object_names) THEN <<>>
  ELSE (IF from \in stored THEN <<from>> ELSE <<>>) \o list_objects(stored, from + 1)

(***************************************************************************)
(* list_log_files and choose_expired_logs as functions of their inputs     *)
(***************************************************************************)

\* a slip: "dag_names is not None" in place of the truth value
DagNamesNotNone(dag_names) == dag_names.kind = "list"

\* truth value of the dag_names argument: None and the empty list are falsy
DagNamesGiven(dag_names) == dag_names.kind = "list" /\ dag_names.items # <<>>

\* truth value of an extracted name: None and the empty string are falsy
NameTruthy(name) == name.kind = "str" /\ name.str # <<>>

\* x in dag_names, for a list
InList(x, lst) == \E k \in 1..Len(lst) : lst[k] = x

\* a slip: the dag_names branch forgotten, every named object kept
ListFilterAnyName(obj, dag_names) == NameTruthy(DagNameOf[obj])

\* the condition of the generator expression list_log_files returns
ListFilter(obj, dag_names) ==
  IF DagNamesGiven(dag_names)
  THEN InList(DagNameOf[obj], dag_names.items)
  ELSE NameTruthy(DagNameOf[obj])

\* list_log_files(dag_names), consumed to its end, over the stored objects
list_log_files(stored, dag_names) ==
  LET objects == list_objects(stored, 1)
      Keep(obj) == ListFilter(obj, dag_names)
  IN  SelectSeq(objects, Keep)

\* a slip: <= in place of <
IsExpiredOrOnDeadline(dag_run_dt, expire_deadline) == dag_run_dt <= expire_deadline

\* a slip: the comparison the wrong way round
IsExpiredInverted(dag_run_dt, expire_deadline) == dag_run_dt > expire_deadline

\* dag_run_dt < expire_deadline
IsExpired(dag_run_dt, expire_deadline) == dag_run_dt < expire_deadline

\* a slip: insert(0, log_file) in place of append
PrependExpired(expired_lst, log_file) == <<log_file>> \o expired_lst

\* a slip: the item appended twice
AppendExpiredTwice(expired_lst, log_file) == Append(Append(expired_lst, log_file), log_file)

\* expired_lst.append(log_file)
AppendExpired(expired_lst, log_file) == Append(expired_lst, log_file)

\* the for loop of choose_expired_logs from item k on: the comparison of None
\* with a date raises TypeError, strptime's ValueError passes through
RECURSIVE ChooseLoop(_, _, _, _)
ChooseLoop(log_files, k, expire_deadline, expired_lst) ==
  IF k > Len(log_files) THEN [err |-> "none", out |-> expired_lst]
  ELSE LET dag_run_dt == DagrunDtOf[log_files[k]]
       IN  IF dag_run_dt.kind = "ValueError" THEN [err |-> "ValueError", out |-> <<>>]
           ELSE IF dag_run_dt.kind = "None" THEN [err |-> "TypeError", out |-> <<>>]
           ELSE IF IsExpired(dag_run_dt.ord, expire_deadline)
                THEN ChooseLoop(log_files, k + 1, expire_deadline,
                                AppendExpired(expired_lst, log_files[k]))
                ELSE ChooseLoop(log_files, k + 1, expire_deadline, expired_lst)

\* now_dt - timedelta(days=logs_ttl_days) is a date of the years 1..9999
DeadlineInRange(today, logs_ttl_days) ==
  /\ today - logs_ttl_days >= MinOrdinal
  /\ today - logs_ttl_days <= MaxOrdinal

\* choose_expired_logs(log_files, logs_ttl_days) on the date today: the list
\* returned, or the error raised (the date subtraction raises OverflowError
\* when the deadline is no date)
choose_expired_logs(log_files, logs_ttl_days, today) ==
  IF ~DeadlineInRange(today, logs_ttl_days)
  THEN [err |-> "OverflowError", out |-> <<>>]
  ELSE ChooseLoop(log_files, 1, today - logs_ttl_days, <<>>)

(***************************************************************************)
(* Inputs                                                                  *)
(***************************************************************************)

\* longest list a caller passes to choose_expired_logs or delete_expired_logs
MaxLen == 3

RECURSIVE SeqsUpTo(_, _)
SeqsUpTo(S, n) ==
  IF n = 0 THEN {<<>>}
  ELSE LET shorter == SeqsUpTo(S, n - 1)
       IN  shorter \cup {Append(s, x) : s \in {t \in shorter : Len(t) = n - 1}, x \in S}

LogFileLists == SeqsUpTo(Objects, MaxLen)

\* the current date: 2024-06-10 (the bucket holds that day and the day before)
\* and 2024-03-01 (the day after a 29 February)
Todays == {ToOrdinal(2024, 6, 10), ToOrdinal(2024, 3, 1)}

\* retention periods: none, one day, the 100 days of the example, minus one
\* day, and one longer than the time since 0001-01-01
TtlDays == {0, 1, 100, 0 - 1, 800000}

NameX == <<"x">>

NameEtlJob == <<"e","t","l","_","j","o","b">>

NameZ == <<"z","z","z">>

\* dag_names arguments: omitted, empty, one name, two names, an unknown name
DagNamesArgs ==
  { NoneVal,
    [kind |-> "list", items |-> <<>>],
    [kind |-> "list", items |-> <<Str(NameEtlJob)>>],
    [kind |-> "list", items |-> <<Str(NameX), Str(NameEtlJob)>>],
    [kind |-> "list", items |-> <<Str(NameZ)>>] }

\* what the bucket may hold when the cleaner starts
InitialStores == {Objects, {1, 2, 3, 4, 7}, {2, 4, 6}, {}}

\* errors remove_object may raise
StoreErrors == {"ObjectNotFoundError", "StoreUnavailableError"}

(***************************************************************************)
(* State                                                                   *)
(***************************************************************************)

VARIABLES
  store,          \* the objects in the bucket
  store0,         \* the objects in the bucket when the caller started
  now_dt,         \* datetime.now().date()
  pc,             \* where the caller is
  dag_names,      \* argument of list_log_files
  listed,         \* what list_log_files yielded
  log_files,      \* argument of choose_expired_logs / delete_expired_logs
  logs_ttl_days,  \* argument of choose_expired_logs
  expired_lst,    \* what choose_expired_logs returned
  err,            \* the error the current call raised, "none" if none
  idx,            \* position of the for loop of delete_expired_logs
  requests,       \* object names passed to client.remove_object, in order
  returned,       \* number of remove_object calls that have returned or raised
  output          \* lines printed

vars == <<store, store0, now_dt, pc, dag_names, listed, log_files, logs_ttl_days,
          expired_lst, err, idx, requests, returned, output>>

Init ==
  /\ store \in InitialStores
  /\ store0 = store
  /\ now_dt \in Todays
  /\ pc = "idle"
  /\ dag_names = NoneVal
  /\ listed = <<>>
  /\ log_files = <<>>
  /\ logs_ttl_days = 0
  /\ expired_lst = <<>>
  /\ err = "none"
  /\ idx = 0
  /\ requests = <<>>
  /\ returned = 0
  /\ output = <<>>

(***************************************************************************)
(* The three public methods, each called on its own                        *)
(***************************************************************************)

\* list_log_files(names), the generator consumed to its end
ListLogFiles ==
  /\ pc = "idle"
  /\ \E names \in DagNamesArgs :
       /\ dag_names' = names
       /\ listed' = list_log_files(store, names)
  /\ pc' = "listed"
  /\ UNCHANGED <<store, store0, now_dt, log_files, logs_ttl_days, expired_lst,
                 err, idx, requests, returned, output>>

\* the effect of choose_expired_logs(files, ttl) on the caller
ChooseCall(files, ttl, ok_pc, raised_pc) ==
  LET res == choose_expired_logs(files, ttl, now_dt)
  IN  /\ log_files' = files
      /\ logs_ttl_days' = ttl
      /\ expired_lst' = res.out
      /\ err' = res.err
      /\ pc' = IF res.err = "none" THEN ok_pc ELSE raised_pc

\* choose_expired_logs(files, ttl) on any list of objects
ChooseExpiredLogs ==
  /\ pc = "idle"
  /\ \E files \in LogFileLists, ttl \in TtlDays :
       ChooseCall(files, ttl, "chosen", "choose_raised")
  /\ UNCHANGED <<store, store0, now_dt, dag_names, listed, idx, requests,
                 returned, output>>

\* choose_expired_logs called again on what it returned, with the same ttl
ChooseAgain ==
  /\ pc = "chosen"
  /\ ChooseCall(expired_lst, logs_ttl_days, "rechosen", "rechoose_raised")
  /\ UNCHANGED <<store, store0, now_dt, dag_names, listed, idx, requests,
                 returned, output>>

\* a slip: >= in place of >
HasLogFilesOrNone(files) == Len(files) >= 0

\* len(log_files) > 0
HasLogFiles(files) == Len(files) > 0

\* the for loop of delete_expired_logs: at item k, or past the last one
LoopPc(files, k) == IF k <= Len(files) THEN "deleting" ELSE "deleted"

\* entering delete_expired_logs(files): the loop, or the notice
DeleteCall(files) ==
  /\ log_files' = files
  /\ idx' = 1
  /\ requests' = <<>>
  /\ returned' = 0
  /\ err' = "none"
  /\ IF HasLogFiles(files)
     THEN /\ pc' = LoopPc(files, 1)
          /\ output' = <<>>
     ELSE /\ pc' = "deleted"
          /\ output' = <<[line |-> "No logfiles to delete"]>>

\* delete_expired_logs(files) on any list of objects
DeleteExpiredLogs ==
  /\ pc = "idle"
  /\ \E files \in LogFileLists : DeleteCall(files)
  /\ UNCHANGED <<store, store0, now_dt, dag_names, listed, logs_ttl_days, expired_lst>>

\* client.remove_object(bucket, file.object_name) is sent
RemoveObject ==
  /\ pc = "deleting"
  /\ requests' = Append(requests, object_name(log_files[idx]))
  /\ pc' = "removing"
  /\ UNCHANGED <<store, store0, now_dt, dag_names, listed, log_files, logs_ttl_days,
                 expired_lst, err, idx, returned, output>>

\* remove_object returns: the object is gone, the line is printed, the loop goes on
RemoveReturns ==
  /\ pc = "removing"
  /\ store' = store \ {log_files[idx]}
  /\ output' = Append(output, [line |-> "Deleted logfile: ", name |-> object_name(log_files[idx])])
  /\ returned' = returned + 1
  /\ idx' = idx + 1
  /\ pc' = LoopPc(log_files, idx + 1)
  /\ UNCHANGED <<store0, now_dt, dag_names, listed, log_files, logs_ttl_days,
                 expired_lst, err, requests>>

\* remove_object raises (ObjectNotFoundError only for an object that is not in
\* the bucket): nothing catches it, delete_expired_logs ends with the error
RemoveRaises ==
  /\ pc = "removing"
  /\ err' \in StoreErrors
  /\ err' = "ObjectNotFoundError" => log_files[idx] \notin store
  /\ returned' = returned + 1
  /\ pc' = "delete_raised"
  /\ UNCHANGED <<store, store0, now_dt, dag_names, listed, log_files, logs_ttl_days,
                 expired_lst, idx, requests, output>>

Next ==
  \/ ListLogFiles
  \/ ChooseExpiredLogs
  \/ ChooseAgain
  \/ DeleteExpiredLogs
  \/ RemoveObject
  \/ RemoveReturns
  \/ RemoveRaises

Spec == Init /\ [][Next]_vars

(***************************************************************************)
(* The pipeline: list, choose, delete, run after run                       *)
(***************************************************************************)

PipelineInit == Init

\* delete_expired_logs(choose_expired_logs(list_log_files(names), ttl)): the listing
PipelineList ==
  /\ pc = "idle"
  /\ \E names \in DagNamesArgs, ttl \in TtlDays :
       /\ dag_names' = names
       /\ logs_ttl_days' = ttl
       /\ listed' = list_log_files(store, names)
  /\ pc' = "p_listed"
  /\ UNCHANGED <<store, store0, now_dt, log_files, expired_lst, err, idx,
                 requests, returned, output>>

\* the listing goes to choose_expired_logs
PipelineChoose ==
  /\ pc = "p_listed"
  /\ ChooseCall(listed, logs_ttl_days, "p_chosen", "choose_raised")
  /\ UNCHANGED <<store, store0, now_dt, dag_names, listed, idx, requests,
                 returned, output>>

\* what was chosen goes to delete_expired_logs
PipelineDelete ==
  /\ pc = "p_chosen"
  /\ DeleteCall(expired_lst)
  /\ UNCHANGED <<store, store0, now_dt, dag_names, listed, logs_ttl_days, expired_lst>>

\* the run is over (or was cut short by an error); the next one starts afresh
PipelineAgain ==
  /\ pc \in {"deleted", "delete_raised", "choose_raised"}
  /\ pc' = "idle"
  /\ store0' = store
  /\ dag_names' = NoneVal
  /\ listed' = <<>>
  /\ log_files' = <<>>
  /\ logs_ttl_days' = 0
  /\ expired_lst' = <<>>
  /\ err' = "none"
  /\ idx' = 0
  /\ requests' = <<>>
  /\ returned' = 0
  /\ output' = <<>>
  /\ UNCHANGED <<store, now_dt>>

PipelineNext ==
  \/ PipelineList
  \/ PipelineChoose
  \/ PipelineDelete
  \/ RemoveObject
  \/ RemoveReturns
  \/ RemoveRaises
  \/ PipelineAgain

PipelineSpec == PipelineInit /\ [][PipelineNext]_vars

(***************************************************************************)
(* Properties                                                              *)
(***************************************************************************)

Range(seq) == {seq[k] : k \in 1..Len(seq)}

NoRepeats(seq) == Cardinality(Range(seq)) = Len(seq)

\* every item carries a date that parses
AllDated(files) == \A k \in 1..Len(files) : DagrunDtOf[files[k]].kind = "date"

\* the items dated strictly before the deadline, in the order given
DatedBefore(files, deadline) ==
  LET Before(obj) == DagrunDtOf[obj].kind = "date" /\ DagrunDtOf[obj].ord < deadline
  IN  SelectSeq(files, Before)

\* a is b with some items left out
RECURSIVE IsSubsequence(_, _)
IsSubsequence(a, b) ==
  IF a = <<>> THEN TRUE
  ELSE IF b = <<>> THEN FALSE
  ELSE IF Head(a) = Head(b) THEN IsSubsequence(Tail(a), Tail(b))
  ELSE IsSubsequence(a, Tail(b))

ChooseEnded == pc \in {"chosen", "choose_raised"}

DeleteEnded == pc \in {"deleted", "delete_raised"}

C2_ContinuesAfterFailure ==
  (DeleteEnded /\ err # "none")
    => /\ Len(requests) = Len(log_files)
       /\ returned = Len(log_files)

\* C3: with an item whose path gives no date, choose_expired_logs either skips
\* it (the rest chosen as usual) or fails with the parse error; no other error
C3_SkipOrParseError ==
  (ChooseEnded /\ ~AllDated(log_files) /\ DeadlineInRange(now_dt, logs_ttl_days))
    => \/ /\ err = "none"
          /\ expired_lst = DatedBefore(log_files, now_dt - logs_ttl_days)
       \/ err = "ValueError"

\* the names a dag_names list holds
NamesIn(names) == {names.items[k].str : k \in 1..Len(names.items)}

\* the stored objects that carry a workflow name
NamedObjects(stored) == {obj \in stored : DagNameOf[obj].kind = "str"}

\* C4: with a non-empty dag_names, list_log_files yields exactly the stored
\* objects whose extracted name is one of dag_names, each once
C4_ListByNames ==
  (pc = "listed" /\ dag_names.kind = "list" /\ Len(dag_names.items) > 0)
    => /\ NoRepeats(listed)
       /\ Range(listed) =
            {obj \in NamedObjects(store) : DagNameOf[obj].str \in NamesIn(dag_names)}

\* dag_names = ["etl_job"] on the full bucket: the two etl_job objects, and
\* neither the objects of x and y nor the object without a name
C4_Witness ==
  /\ pc = "listed"
  /\ store = Objects
  /\ dag_names = [kind |-> "list", items |-> <<Str(NameEtlJob)>>]
  /\ listed = <<3, 4>>
  /\ DagNameOf[1] = Str(NameX)
  /\ DagNameOf[7] = NoneVal

\* C5: with dag_names omitted or empty, list_log_files yields every stored
\* object that carries a workflow name, each once, and no other
C5_ListAllNamed ==
  (pc = "listed" /\ (dag_names = NoneVal \/ dag_names.items = <<>>))
    => /\ NoRepeats(listed)
       /\ Range(listed) = NamedObjects(store)

\* dag_names = [] on the full bucket: everything but the object without a name
C5_Witness ==
  /\ pc = "listed"
  /\ store = Objects
  /\ dag_names = [kind |-> "list", items |-> <<>>]
  /\ listed = <<1, 2, 3, 4, 5, 6>>

\* C6: delete_expired_logs of the empty list sends nothing to the store,
\* leaves the bucket as it was and prints the notice alone
C6_EmptyDelete ==
  (pc \in {"deleting", "removing", "deleted", "delete_raised"} /\ log_files = <<>>)
    => /\ pc = "deleted"
       /\ requests = <<>>
       /\ returned = 0
       /\ store = store0
       /\ err = "none"
       /\ output = <<[line |-> "No logfiles to delete"]>>

C6_Witness ==
  /\ pc = "deleted"
  /\ log_files = <<>>
  /\ store = Objects
  /\ output # <<>>

\* C7: for a non-empty input, the requests sent are the names of the items, one
\* per item and in input order, each sent after the one before it came back
C7_OneRequestPerItem ==
  /\ Len(requests) - returned \in {0, 1}
  /\ (DeleteEnded /\ log_files # <<>>)
       => requests = [k \in 1..Len(log_files) |-> object_name(log_files[k])]

\* C8: choose_expired_logs applied to what it returned, with the same
\* ttl_days on the same day, returns the same list
C8_Idempotent ==
  /\ pc # "rechoose_raised"
  /\ pc = "rechosen" => expired_lst = log_files

\* two different items chosen, and chosen again
C8_Witness ==
  /\ pc = "rechosen"
  /\ Len(expired_lst) >= 2
  /\ expired_lst[1] # expired_lst[2]

\* C9: what choose_expired_logs returns is its input with some items left
\* out: same order, nothing added, nothing repeated
C9_Subsequence ==
  pc = "chosen" => IsSubsequence(expired_lst, log_files)

\* an item kept out between two that are chosen, out of key order
C9_Witness ==
  /\ pc = "chosen"
  /\ log_files = <<3, 4, 1>>
  /\ expired_lst = <<3, 1>>

\* the objects a pipeline run may remove: in the bucket when the run started,
\* with a workflow name (one of dag_names when given), dated before the deadline
Removable ==
  {obj \in NamedObjects(store0) :
     /\ (dag_names.kind = "list" /\ dag_names.items # <<>>)
          => DagNameOf[obj].str \in NamesIn(dag_names)
     /\ DagrunDtOf[obj].kind = "date"
     /\ DagrunDtOf[obj].ord < now_dt - logs_ttl_days}

\* C10: at every point of a pipeline run, what is gone from the bucket was
\* listed and removable; everything else is still there
C10_OnlyExpiredRemoved ==
  /\ store \subseteq store0
  /\ (store0 \ store) \subseteq Removable
  /\ (store0 \ store) \subseteq Range(listed)

\* a run cut short by a store error after one removal: the object of the day
\* and the object without a name are still there
C10_Witness ==
  /\ pc = "delete_raised"
  /\ now_dt = ToOrdinal(2024, 6, 10)
  /\ logs_ttl_days = 0
  /\ store0 \ store = {1}
  /\ {2, 3, 4, 7} \subseteq store

=============================================================================
